---------------------------- MODULE Spec2Model ----------------------------
(***************************************************************************)
(* Flight simulator (app_flightsim.cpp): the flight state of class Sample, *)
(* the keyboard handler and the per-frame step Sample::Advance with its    *)
(* landing check Sample::CheckLanding.                                     *)
(*                                                                         *)
(* Numbers.  The program computes in 32-bit floats.  The model computes in *)
(* fixed point: a float value v is the integer v * Q, Q = 10^6, and every  *)
(* product and quotient is truncated toward zero to that grid.  TLC's      *)
(* integers are 32 bits wide, so products are formed from the operands'    *)
(* thousands and units (MulAbs, DivAbs).  A not-a-number result is the     *)
(* value NaN (scalars), a record with nan = TRUE (quaternions) or a vector *)
(* of NaN components.                                                      *)
(***************************************************************************)
EXTENDS Integers, Sequences, FiniteSets, TLC

Q == 1000000

\* the model's not-a-number scalar: no arithmetic result equals it
NaN == -2147483647

Abs(a) == IF a >= 0 THEN a ELSE -a
Sgn(a) == IF a > 0 THEN 1 ELSE IF a < 0 THEN -1 ELSE 0
Min(a, b) == IF a <= b THEN a ELSE b
Max(a, b) == IF a >= b THEN a ELSE b
Clamp1(a) == Max(-Q, Min(Q, a))

\* a / k for an integer k > 0, truncated toward zero (float division by a constant)
Tdiv(a, k) == Sgn(a) * (Abs(a) \div k)

\* a * b / Q for a, b >= 0, without leaving 32 bits
MulAbs(a, b) ==
  LET ah == a \div 1000
      al == a % 1000
      bh == b \div 1000
      bl == b % 1000
      t  == ah * bl + al * bh
  IN  ah * bh + (t \div 1000) + (((t % 1000) * 1000 + al * bl) \div Q)

\* float product a * b
Mul(a, b) == Sgn(a) * Sgn(b) * MulAbs(Abs(a), Abs(b))

\* the power of ten that brings a divisor below 2 * 10^6
Shift(b) == IF b < 2000000 THEN 1
            ELSE IF b < 20000000 THEN 10
            ELSE IF b < 200000000 THEN 100 ELSE 1000

\* a * Q / b for a >= 0, b > 0, by long division in base 1000
DivAbs(a, b) ==
  LET k  == Shift(b)
      a1 == a \div k
      b1 == b \div k
      q1 == a1 \div b1
      r1 == a1 % b1
      q2 == (r1 * 1000) \div b1
      r2 == (r1 * 1000) % b1
  IN  q1 * Q + q2 * 1000 + ((r2 * 1000) \div b1)

\* float quotient a / b, b # 0
Div(a, b) == Sgn(a) * Sgn(b) * DivAbs(Abs(a), Abs(b))

\* integer square root (Newton's iteration from x)
RECURSIVE ISqrtFrom(_, _)
ISqrtFrom(n, x) ==
  LET y == (x + (n \div x)) \div 2
  IN  IF y >= x THEN x ELSE ISqrtFrom(n, y)

ISqrt(n) == IF n < 2 THEN n ELSE ISqrtFrom(n, n)

\* sqrtf(s) for a fixed-point s in [0, 4]: two Newton steps from isqrt(s) * 1000
SqrtQ(s) ==
  LET Newton(y) == (y + DivAbs(s, y)) \div 2
  IN  IF s <= 0 THEN 0 ELSE Newton(Newton(ISqrt(s) * 1000))

PI == 3141593
TWOPI == 6283185
HALFPI == 1570796

\* sin on [-pi/2, pi/2]: the Taylor polynomial to x^11, nested
SinPoly(x) ==
  LET x2 == Mul(x, x)
      t5 == Q - (x2 \div 110)
      t4 == Q - (Mul(x2, t5) \div 72)
      t3 == Q - (Mul(x2, t4) \div 42)
      t2 == Q - (Mul(x2, t3) \div 20)
      t1 == Q - (Mul(x2, t2) \div 6)
  IN  Mul(x, t1)

\* sin(x), x in radians
Sin(x) ==
  LET r0 == x % TWOPI
      r1 == IF r0 > PI THEN r0 - TWOPI ELSE r0
      r2 == IF r1 > HALFPI THEN PI - r1
            ELSE IF r1 < -HALFPI THEN -PI - r1 ELSE r1
  IN  SinPoly(r2)

\* cos(x), x in radians
Cos(x) == Sin(x + HALFPI)

\* acos on [0, 1]: sqrt(1 - x) * p(x), p of degree 7 (Abramowitz & Stegun 4.4.46)
AcosPos(x) ==
  LET p7 == -1262
      p6 == 6670 + Mul(p7, x)
      p5 == -17088 + Mul(p6, x)
      p4 == 30892 + Mul(p5, x)
      p3 == -50174 + Mul(p4, x)
      p2 == 88979 + Mul(p3, x)
      p1 == -214599 + Mul(p2, x)
      p0 == 1570796 + Mul(p1, x)
  IN  Mul(SqrtQ(Q - x), p0)

\* acos(x) in radians; not a number outside [-1, 1]
Acos(x) ==
  IF x > Q \/ x < -Q THEN NaN
  ELSE IF x >= 0 THEN AcosPos(x) ELSE PI - AcosPos(-x)


----------------------------------------------------------------------------
(* Vec3F and Quaternion (quaternion.h is a library outside this repository; *)
(* its operations are modelled on section 4.4 of the specification).        *)

Vec(a, b, c) == [x |-> a, y |-> b, z |-> c]
NaNVec == Vec(NaN, NaN, NaN)
VecIsNaN(v) == v.x = NaN \/ v.y = NaN \/ v.z = NaN

VAdd(a, b) == Vec(a.x + b.x, a.y + b.y, a.z + b.z)
VScale(a, s) == Vec(Mul(a.x, s), Mul(a.y, s), Mul(a.z, s))
VDivS(a, s) == Vec(Div(a.x, s), Div(a.y, s), Div(a.z, s))
VDot(a, b) == Mul(a.x, b.x) + Mul(a.y, b.y) + Mul(a.z, b.z)
VCross(a, b) == Vec(Mul(a.y, b.z) - Mul(a.z, b.y),
                    Mul(a.z, b.x) - Mul(a.x, b.z),
                    Mul(a.x, b.y) - Mul(a.y, b.x))

\* Vec3F::Length: the largest component times the length of the scaled vector
Length(a) ==
  LET Scaled(m, r) == IF m = 0 THEN 0 ELSE Mul(m, SqrtQ(VDot(r, r)))
      By(m) == Scaled(m, VDivS(a, m))
  IN  By(Max(Abs(a.x), Max(Abs(a.y), Abs(a.z))))

\* Vec3F::Normalize of a non-zero vector
Normalize(a) == VDivS(a, Length(a))

Quat(a, b, c, d) == [w |-> a, x |-> b, y |-> c, z |-> d, nan |-> FALSE]
NaNQuat == [w |-> 0, x |-> 0, y |-> 0, z |-> 0, nan |-> TRUE]
QIdentity == Quat(Q, 0, 0, 0)

\* the quaternion product a b: the rotation b, then the rotation a
QMul(a, b) ==
  IF a.nan \/ b.nan THEN NaNQuat
  ELSE Quat(Mul(a.w, b.w) - Mul(a.x, b.x) - Mul(a.y, b.y) - Mul(a.z, b.z),
            Mul(a.w, b.x) + Mul(a.x, b.w) + Mul(a.y, b.z) - Mul(a.z, b.y),
            Mul(a.w, b.y) - Mul(a.x, b.z) + Mul(a.y, b.w) + Mul(a.z, b.x),
            Mul(a.w, b.z) + Mul(a.x, b.y) - Mul(a.y, b.x) + Mul(a.z, b.w))

\* the squared magnitude of a quaternion
QNorm2(q) == Mul(q.w, q.w) + Mul(q.x, q.x) + Mul(q.y, q.y) + Mul(q.z, q.z)

\* Quaternion::normalize
QNormalize(q) ==
  LET By(n) == IF n = 0 THEN NaNQuat
               ELSE Quat(Div(q.w, n), Div(q.x, n), Div(q.y, n), Div(q.z, n))
  IN  IF q.nan THEN NaNQuat ELSE By(SqrtQ(QNorm2(q)))

\* Vec3F * Quaternion: the vector v rotated by q (as a rotation matrix)
Rot(v, q) ==
  IF q.nan \/ VecIsNaN(v) THEN NaNVec
  ELSE
  LET xx == Mul(q.x, q.x)
      yy == Mul(q.y, q.y)
      zz == Mul(q.z, q.z)
      xy == Mul(q.x, q.y)
      xz == Mul(q.x, q.z)
      yz == Mul(q.y, q.z)
      wx == Mul(q.w, q.x)
      wy == Mul(q.w, q.y)
      wz == Mul(q.w, q.z)
  IN  Vec(Mul(v.x, Q - 2 * (yy + zz)) + Mul(v.y, 2 * (xy - wz)) + Mul(v.z, 2 * (xz + wy)),
          Mul(v.x, 2 * (xy + wz)) + Mul(v.y, Q - 2 * (xx + zz)) + Mul(v.z, 2 * (yz - wx)),
          Mul(v.x, 2 * (xz - wy)) + Mul(v.y, 2 * (yz + wx)) + Mul(v.z, Q - 2 * (xx + yy)))

\* Quaternion::fromAngleAxis(angle, axis), axis of unit length
FromAngleAxis(angle, axis) ==
  LET Of(c, s) == Quat(c, Mul(axis.x, s), Mul(axis.y, s), Mul(axis.z, s))
  IN  Of(Cos(Abs(angle) \div 2), Sgn(angle) * Sin(Abs(angle) \div 2))

\* Quaternion::fromRotationFromTo(from, to, frac): the shortest rotation from
\* `from` to `to`, its angle scaled by frac; not a number when the two are
\* exactly opposite (no axis), the identity when they coincide
FromRotationFromTo(from, to, frac) ==
  LET About(c, d) ==
        IF c = Vec(0, 0, 0)
        THEN (IF d < 0 THEN NaNQuat ELSE QIdentity)
        ELSE FromAngleAxis(Mul(Acos(Clamp1(d)), frac), Normalize(c))
  IN  About(VCross(from, to), VDot(from, to))

\* Quaternion::fromDirectionAndRoll(dir, roll) for a direction in the ground
\* plane (both calls pass dir.y = 0): body forward (X) turned about the world
\* up axis onto dir, then rolled about dir; not a number for the zero vector
FromDirectionAndRoll(dir, roll) ==
  LET Yaw(dx, dz, cp, sn) ==
        IF dx >= 0
        THEN Quat(cp, 0, Div(-dz, 2 * cp), 0)
        ELSE Quat(Div(Abs(dz), 2 * sn), 0, IF dz <= 0 THEN sn ELSE -sn, 0)
      Rolled(dx, dz, yaw) ==
        IF roll = 0 THEN QNormalize(yaw)
        ELSE QNormalize(QMul(FromAngleAxis(roll, Vec(dx, 0, dz)), yaw))
      Toward(dx, dz) ==
        Rolled(dx, dz, Yaw(dx, dz, SqrtQ((Q + dx) \div 2), SqrtQ((Q - dx) \div 2)))
      Along(l) ==
        IF l = 0 THEN NaNQuat ELSE Toward(Clamp1(Div(dir.x, l)), Div(dir.z, l))
  IN  Along(Length(Vec(dir.x, 0, dir.z)))

\* radians to degrees (RADtoDEG)
RADtoDEG == 57295780

Asin(x) == HALFPI - Acos(Clamp1(x))

Atan2(y, x) ==
  LET Signed(a) == IF y >= 0 THEN a ELSE -a
      Of(l) == IF l = 0 THEN 0 ELSE Signed(Acos(Clamp1(Div(x, l))))
  IN  Of(Length(Vec(x, y, 0)))

\* Quaternion::toEuler(angs): x = roll, y = pitch, z = heading, in degrees
ToEuler(q) ==
  LET Of(f, u, r) == Vec(Mul(Atan2(r.y, u.y), RADtoDEG),
                         Mul(Asin(f.y), RADtoDEG),
                         Mul(Atan2(-f.z, f.x), RADtoDEG))
  IN  Of(Rot(Vec(Q, 0, 0), q), Rot(Vec(0, Q, 0), q), Rot(Vec(0, 0, Q), q))

\* m_orient *= d: the rotation d, whose axis the caller gives in world
\* coordinates, applied after the orientation o
OrientCompose(o, d) == QMul(d, o)

----------------------------------------------------------------------------
(* The state of class Sample *)

VARIABLES
  m_pos,            \* Vec3F: position, y is the altitude
  m_vel,            \* Vec3F: velocity
  m_orient,         \* Quaternion: body orientation
  m_roll,           \* roll input: -1, 0, +1
  m_pitch,          \* pitch input: -1, 0, +1
  m_pitch_adv,      \* smoothed pitch authority
  m_power,          \* throttle
  m_flaps,          \* 0 or 1
  m_speed,          \* speed of the last step (display, landing check)
  m_aoa,            \* angle of attack of the last step, degrees
  m_airborn,        \* ticks since the last ground contact
  m_landing_info,   \* the landing message: << >> when empty, else << verdict >>
  m_landing_status, \* the landing flag
  m_run,            \* whether display() steps the simulation
  m_flightcam,      \* cockpit or orbit camera
  ticks,            \* Advance calls made so far
  keys,             \* keyboard events delivered so far
  flown,            \* history: the Advance calls in the air since the last one on the ground
  evals,            \* history: the landing evaluations made so far
  last              \* what the last call did (the handler, its inputs, its branch)

vars == << m_pos, m_vel, m_orient, m_roll, m_pitch, m_pitch_adv, m_power, m_flaps,
           m_speed, m_aoa, m_airborn, m_landing_info, m_landing_status, m_run,
           m_flightcam, ticks, keys, flown, evals, last >>

flight == << m_pos, m_vel, m_orient, m_pitch_adv, m_speed, m_aoa, m_airborn,
             m_landing_info, m_landing_status >>

controls == << m_roll, m_pitch, m_power, m_flaps >>

\* exploration bounds: Advance calls and keyboard events per run, and the
\* Advance calls of a whole flight
MaxTicks == 3
MaxKeys == 1
MaxFlight == 5000

m_max_speed == 500 * Q
m_runway_length == 2000 * Q
m_runway_width == 50 * Q
m_wind == Vec(0, 0, 0)

\* x * m_DT, m_DT = 0.001
TimesDT(x) == Tdiv(x, 1000)

----------------------------------------------------------------------------
(* Sample::keyboard *)

KeyCodes == {"LEFT", "RIGHT", "UP", "DOWN", "space", "c", "w", "q", "s", "a", "f", "x"}
KeyActions == {"PRESS", "RELEASE", "REPEAT"}

\* the throttle without its upper clamp
ThrottleUp_NoClamp(p) == p + 100000

\* m_power += 0.1; if (m_power > 10) m_power = 10
ThrottleUp(p) == IF p + 100000 > 10 * Q THEN 10 * Q ELSE p + 100000

\* m_power -= 0.1; if (m_power < 0) m_power = 0
ThrottleDown(p) == IF p - 100000 < 0 THEN 0 ELSE p - 100000

\* m_flaps = (m_flaps == 0) ? 1 : 0
FlapsToggle(f) == IF f = 0 THEN 1 ELSE 0

\* the release branch: the roll keys zero the roll, the pitch keys the pitch
KeyRelease(keycode) ==
  /\ m_roll' = IF keycode \in {"LEFT", "RIGHT"} THEN 0 ELSE m_roll
  /\ m_pitch' = IF keycode \in {"UP", "DOWN"} THEN 0 ELSE m_pitch
  /\ UNCHANGED << m_power, m_flaps, m_run, m_flightcam >>

\* the press branch (any action but a release)
KeyPress(keycode) ==
  /\ m_run' = IF keycode = "space" THEN ~m_run ELSE m_run
  /\ m_flightcam' = IF keycode = "c" THEN ~m_flightcam ELSE m_flightcam
  /\ m_power' = IF keycode \in {"w", "q"} THEN ThrottleUp(m_power)
                ELSE IF keycode \in {"s", "a"} THEN ThrottleDown(m_power)
                ELSE m_power
  /\ m_flaps' = IF keycode = "f" THEN FlapsToggle(m_flaps) ELSE m_flaps
  /\ m_roll' = IF keycode = "LEFT" THEN -1
               ELSE IF keycode = "RIGHT" THEN 1 ELSE m_roll
  /\ m_pitch' = IF keycode = "UP" THEN -1
                ELSE IF keycode = "DOWN" THEN 1 ELSE m_pitch

Keyboard(keycode, action) ==
  /\ IF action = "RELEASE" THEN KeyRelease(keycode) ELSE KeyPress(keycode)
  /\ last' = [op |-> "keyboard", keycode |-> keycode, action |-> action,
              roll0 |-> m_roll, pitch0 |-> m_pitch, power0 |-> m_power,
              flaps0 |-> m_flaps, run0 |-> m_run, cam0 |-> m_flightcam]
  /\ UNCHANGED << flight, flown, evals >>

----------------------------------------------------------------------------
(* Sample::CheckLanding *)

\* "%4.1f": the value rounded to one decimal, in tenths
Fmt1(x) == Sgn(x) * ((Abs(x) + 50000) \div 100000)

OkFail(b) == IF b THEN "OK" ELSE "FAIL"

\* the gate opening one tick early
LandingGate_AtLeast(airborn) == airborn >= 2000

\* if ( m_airborn > 2000 )
LandingGate(airborn) == airborn > 2000

\* ok_speed = (m_speed < 80)
OkSpeed(speed) == speed < 80 * Q

\* ok_sink = (fabs(m_vel.y) < 2)
OkSink(vy) == Abs(vy) < 2 * Q

\* ok_pitch = (fabs(angs.y) < 5)
OkPitch(angs) == Abs(angs.y) < 5 * Q

\* ok_roll = (fabs(angs.x) < 5)
OkRoll(angs) == Abs(angs.x) < 5 * Q

\* the runway test with its edges counted as on the runway
OkRunway_Inclusive(pos) ==
  /\ pos.x >= -m_runway_width
  /\ pos.x <= m_runway_width
  /\ pos.z >= -m_runway_length
  /\ pos.z <= m_runway_length

\* ok_runway: strictly inside the runway rectangle
OkRunway(pos) ==
  /\ pos.x > -m_runway_width
  /\ pos.x < m_runway_width
  /\ pos.z > -m_runway_length
  /\ pos.z < m_runway_length

\* the sprintf of the verdict: the overall result, then each value and its flag
LandingMessage(status, speed, vy, angs, pos) ==
  << [result |-> IF status THEN "LANDED!" ELSE "CRASH",
      speed  |-> Fmt1(speed),     speed_ok |-> OkFail(OkSpeed(speed)),
      sink   |-> Fmt1(vy),        sink_ok  |-> OkFail(OkSink(vy)),
      pitch  |-> Fmt1(Abs(angs.y)), pitch_ok |-> OkFail(OkPitch(angs)),
      roll   |-> Fmt1(Abs(angs.x)), roll_ok  |-> OkFail(OkRoll(angs)),
      runway |-> IF OkRunway(pos) THEN "Yes     OK" ELSE "No     FAIL"] >>

\* m_landing_status = ok_speed && ok_sink && ok_pitch && ok_roll && ok_runway
LandingStatus(speed, vy, angs, pos) ==
  OkSpeed(speed) /\ OkSink(vy) /\ OkPitch(angs) /\ OkRoll(angs) /\ OkRunway(pos)

\* the landing check with the reset of the tick count moved inside the gate
CheckLanding_ResetInsideGate(airborn, orient, speed, vel, pos, info, status) ==
  LET Verdict(angs, ok) ==
        [info |-> LandingMessage(ok, speed, vel.y, angs, pos),
         status |-> ok, airborn |-> 0, eval |-> TRUE, angs |-> angs]
      Graded(angs) == Verdict(angs, LandingStatus(speed, vel.y, angs, pos))
  IN  IF LandingGate(airborn)
      THEN Graded(ToEuler(orient))
      ELSE [info |-> info, status |-> status, airborn |-> airborn, eval |-> FALSE,
            angs |-> Vec(0, 0, 0)]

\* CheckLanding on the given members: the new message, flag and tick count
CheckLanding(airborn, orient, speed, vel, pos, info, status) ==
  LET Verdict(angs, ok) ==
        [info |-> LandingMessage(ok, speed, vel.y, angs, pos),
         status |-> ok, airborn |-> 0, eval |-> TRUE, angs |-> angs]
      Graded(angs) == Verdict(angs, LandingStatus(speed, vel.y, angs, pos))
  IN  IF LandingGate(airborn)
      THEN Graded(ToEuler(orient))
      ELSE [info |-> info, status |-> status, airborn |-> 0, eval |-> FALSE,
            angs |-> Vec(0, 0, 0)]

----------------------------------------------------------------------------
(* Sample::Advance *)

\* if (m_speed < 0) m_speed = 0; if (m_speed > m_max_speed) m_speed = m_max_speed
SpeedLimit(speed) ==
  IF speed < 0 THEN 0 ELSE IF speed > m_max_speed THEN m_max_speed ELSE speed

\* vaxis = m_vel / m_speed; ... if (m_speed == 0) vaxis = fwd
VelocityAxis(vel, len, speed, fwd) ==
  IF speed = 0 THEN fwd
  ELSE IF len = 0 THEN NaNVec ELSE VDivS(vel, len)

\* the pitch authority forced only below the ground, not on it
PitchAdvance_BelowGround(posy, pitch_adv, pitch) ==
  Mul(IF posy < 0 THEN 1100000 ELSE pitch_adv, 999500) + pitch * 5000

\* if (m_pos.y <= 0) m_pitch_adv = 1.1;
\* m_pitch_adv = m_pitch_adv * 0.9995 + m_pitch * 0.005
PitchAdvance(posy, pitch_adv, pitch) ==
  Mul(IF posy <= 0 THEN 1100000 ELSE pitch_adv, 999500) + pitch * 5000

\* flap_lift = m_flaps * cos(m_speed / m_max_speed * (PI / 2))
FlapLift(flaps, speed) == flaps * Cos(Mul(Div(speed, m_max_speed), HALFPI))

\* dynamic_pressure = 0.5 * p * airflow * airflow, p = 1.225, in thousands
DynamicPressure(airflow) == Mul(Mul(airflow, Tdiv(airflow, 1000)), 612500)

\* m_aoa = acos(fwd.Dot(vaxis)) * RADtoDEG + 1
AngleOfAttack(fwd, vaxis) ==
  LET Degrees(a) == IF a = NaN THEN NaN ELSE Mul(a, RADtoDEG) + Q
  IN  Degrees(Acos(VDot(fwd, vaxis)))

\* if (isnan(m_aoa)) m_aoa = 1
AoaGuard(aoa) == IF aoa = NaN THEN Q ELSE aoa

\* L = CL * dynamic_pressure * m_LiftFactor * 0.5, CL = sin(m_aoa * 0.2) + flap_lift
Lift(aoa, flap_lift, dpk) ==
  IF aoa = NaN THEN NaN
  ELSE Tdiv(Mul(Sin(Tdiv(aoa, 5)) + flap_lift, dpk), 20)

\* the drag with its sign lost: it pushes along the velocity
Drag_Negated(dpk, flaps) == -(Tdiv(dpk, 10) * (1 + flaps))

\* the drag magnitude: dynamic_pressure * m_DragFactor * wing_area
Drag(dpk, flaps) == Tdiv(dpk, 10) * (1 + flaps)

\* the reorientation without its guard
ReorientGuard_Always(angvel) == TRUE

\* if ( !isnan(angvel.X) )
ReorientGuard(angvel) == ~angvel.nan

\* angvel.fromRotationFromTo(fwd, vaxis, 0.001); if (!isnan) { m_orient *= angvel; normalize }
Reorient(orient, fwd, vaxis) ==
  LET Apply(angvel) == IF ReorientGuard(angvel)
                       THEN QNormalize(OrientCompose(orient, angvel))
                       ELSE orient
  IN  Apply(FromRotationFromTo(fwd, vaxis, 1000))

\* ctrl_roll.fromAngleAxis(m_roll*0.001, Vec3F(1,0,0) * m_orient); m_orient *= ctrl_roll; normalize
RollControl(orient, roll) ==
  IF orient.nan THEN NaNQuat
  ELSE QNormalize(OrientCompose(orient,
                    FromAngleAxis(roll * 1000, Rot(Vec(Q, 0, 0), orient))))

\* the same two compositions without m_orient.normalize()
UpdateOrientation_NoNormalize(orient, fwd, vaxis, roll) ==
  LET Roll(o1) == IF o1.nan THEN NaNQuat
                  ELSE OrientCompose(o1, FromAngleAxis(roll * 1000, Rot(Vec(Q, 0, 0), o1)))
      Apply(angvel) == IF ReorientGuard(angvel) THEN OrientCompose(orient, angvel)
                       ELSE orient
  IN  Roll(Apply(FromRotationFromTo(fwd, vaxis, 1000)))

\* "Update Orientation" and "Roll inputs": the orientation of the airborne aircraft
UpdateOrientation(orient, fwd, vaxis, roll) ==
  RollControl(Reorient(orient, fwd, vaxis), roll)

\* if (m_pos.y <= 0.00001)
GroundCondition(posy) == posy <= 10

\* the rudder rotation on the ground: fromAngleAxis(-m_roll*0.001, Vec3F(0,1,0))
Rudder(roll) == FromAngleAxis(-roll * 1000, Vec(0, Q, 0))

\* m_orient.fromDirectionAndRoll(Vec3F(fwd.x, 0, fwd.z), 0); m_orient *= ctrl_roll; normalize
GroundOrient(fwd, roll) ==
  QNormalize(OrientCompose(FromDirectionAndRoll(Vec(fwd.x, 0, fwd.z), 0), Rudder(roll)))

\* the ground forces without m_vel.y = 0
GroundVelocity_KeepSink(vel, roll) == Rot(VScale(vel, 999900), Rudder(roll))

\* m_vel.y = 0; m_vel *= 0.9999; m_vel *= ctrl_roll
GroundVelocity(vel, roll) ==
  Rot(VScale(Vec(vel.x, 0, vel.z), 999900), Rudder(roll))

\* the expiry one tick early
ExpireInfo_AtLeast(airborn, info) == IF airborn >= 3200 THEN << >> ELSE info

\* m_airborn++; if (m_airborn > 3200) m_landing_info = ""
ExpireInfo(airborn, info) == IF airborn > 3200 THEN << >> ELSE info

\* m_vel += m_accel * m_DT
IntegrateVelocity(vel, accel) ==
  Vec(vel.x + TimesDT(accel.x), vel.y + TimesDT(accel.y), vel.z + TimesDT(accel.z))

\* m_pos += m_vel * m_DT
IntegratePosition(pos, vel) ==
  Vec(pos.x + TimesDT(vel.x), pos.y + TimesDT(vel.y), pos.z + TimesDT(vel.z))

\* The members as a call of Advance finds them.
Members ==
  [pos0 |-> m_pos, vel0 |-> m_vel, orient0 |-> m_orient, pitch_adv0 |-> m_pitch_adv,
   airborn0 |-> m_airborn, info0 |-> m_landing_info, status0 |-> m_landing_status,
   roll |-> m_roll, pitch |-> m_pitch, power |-> m_power, flaps |-> m_flaps,
   flown0 |-> flown, evals0 |-> evals]

\* Advance is modelled statement by statement: each step below takes the
\* record of the values computed so far and adds its own.

\* Body frame of reference
BodyFrame(s) ==
  s @@ [fwd   |-> Rot(Vec(Q, 0, 0), s.orient0),
        up    |-> Rot(Vec(0, Q, 0), s.orient0),
        right |-> Rot(Vec(0, 0, Q), s.orient0)]

\* Velocity limit
VelocityLimit(s) ==
  LET Limited(len, speed) ==
        s @@ [speed |-> speed, vaxis0 |-> VelocityAxis(s.vel0, len, speed, s.fwd)]
      Measured(len) == Limited(len, SpeedLimit(len))
  IN  Measured(Length(s.vel0))

\* Pitch inputs: ctrl_pitch.fromAngleAxis(m_pitch_adv*0.0001, right); vaxis *= ctrl_pitch
PitchInputs(s) ==
  LET Steered(padv) ==
        s @@ [pitch_adv |-> padv,
              vaxis |-> Normalize(Rot(s.vaxis0, FromAngleAxis(Mul(padv, 100), s.right)))]
  IN  Steered(PitchAdvance(s.pos0.y, s.pitch_adv0, s.pitch))

\* m_vel = vaxis * m_speed
TargetVelocity(s) == s @@ [vel1 |-> VScale(s.vaxis, s.speed)]

\* Flaps, dynamic pressure, lift, drag and thrust: m_force
Forces(s) ==
  LET Sum(aoa, flap_lift, dpk) ==
        s @@ [aoa   |-> aoa,
              force |-> VAdd(VAdd(VScale(s.up, Lift(aoa, flap_lift, dpk)),
                                  VScale(s.vaxis, -Drag(dpk, s.flaps))),
                             VScale(s.fwd, s.power))]
  IN  Sum(AoaGuard(AngleOfAttack(s.fwd, s.vaxis)),
          FlapLift(s.flaps, s.speed),
          DynamicPressure(s.speed - VDot(m_wind, s.vaxis)))

\* Update Orientation, Roll inputs
Orientation(s) ==
  s @@ [degenerate |-> FromRotationFromTo(s.fwd, s.vaxis, 1000).nan,
        orient2    |-> UpdateOrientation(s.orient0, s.fwd, s.vaxis, s.roll)]

\* Integrate position: m_accel = m_force / mass (0.1), gravity, wind force;
\* m_pos += m_vel * m_DT
Acceleration(s) ==
  s @@ [accel1 |-> Vec(10 * s.force.x + Tdiv(Mul(m_wind.x, 1225000), 10),
                       10 * s.force.y - 9800000 + Tdiv(Mul(m_wind.y, 1225000), 10),
                       10 * s.force.z + Tdiv(Mul(m_wind.z, 1225000), 10)),
        pos1   |-> IntegratePosition(s.pos0, s.vel1)]

\* Ground condition, the branch on the ground
OnGround(s) ==
  LET Landed(landing) ==
        s @@ [ground  |-> TRUE,
              eval    |-> landing.eval,
              angs    |-> landing.angs,
              info    |-> landing.info,
              status  |-> landing.status,
              airborn |-> landing.airborn,
              pos     |-> Vec(s.pos1.x, 0, s.pos1.z),
              vel2    |-> GroundVelocity(s.vel1, s.roll),
              accel   |-> Vec(s.accel1.x, s.accel1.y + 9800000, s.accel1.z),
              orient  |-> GroundOrient(s.fwd, s.roll)]
  IN  Landed(CheckLanding(s.airborn0, s.orient2, s.speed, s.vel1, s.pos1,
                          s.info0, s.status0))

\* Ground condition, the branch in the air
InAir(s) ==
  s @@ [ground  |-> FALSE,
        eval    |-> FALSE,
        angs    |-> Vec(0, 0, 0),
        info    |-> ExpireInfo(s.airborn0 + 1, s.info0),
        status  |-> s.status0,
        airborn |-> s.airborn0 + 1,
        pos     |-> s.pos1,
        vel2    |-> s.vel1,
        accel   |-> s.accel1,
        orient  |-> s.orient2]

GroundOrAir(s) == IF GroundCondition(s.pos1.y) THEN OnGround(s) ELSE InAir(s)

\* integrate velocity
FinalVelocity(s) == s @@ [vel |-> IntegrateVelocity(s.vel2, s.accel)]

\* One call of Advance on the current members: the new members (pos, vel,
\* orient, pitch_adv, speed, aoa, airborn, info, status) and the values the
\* call went through.
AdvanceStep ==
  FinalVelocity(GroundOrAir(Acceleration(Orientation(Forces(TargetVelocity(
    PitchInputs(VelocityLimit(BodyFrame(Members)))))))))

\* a member is not a number: every later result is not a number either
Poisoned == VecIsNaN(m_vel) \/ VecIsNaN(m_pos) \/ m_orient.nan \/ m_aoa = NaN

\* display(): if (m_run) Advance()
AdvanceCall ==
  /\ m_run
  /\ ~Poisoned
  /\ \E r \in {AdvanceStep} :
         /\ m_pos' = r.pos
         /\ m_vel' = r.vel
         /\ m_orient' = r.orient
         /\ m_pitch_adv' = r.pitch_adv
         /\ m_speed' = r.speed
         /\ m_aoa' = r.aoa
         /\ m_airborn' = r.airborn
         /\ m_landing_info' = r.info
         /\ m_landing_status' = r.status
         /\ flown' = IF r.ground THEN 0 ELSE flown + 1
         /\ evals' = IF r.eval THEN evals + 1 ELSE evals
         /\ last' = [op |-> "advance"] @@ r
  /\ ticks' = ticks + 1
  /\ UNCHANGED << m_roll, m_pitch, m_power, m_flaps, m_run, m_flightcam, keys >>

\* a frame, within the frames of a run
Advance == ticks < MaxTicks /\ AdvanceCall

\* a frame of a whole flight
Fly == ticks < MaxFlight /\ AdvanceCall

\* a keyboard event between two frames, within the events of a run
KeyEvent ==
  /\ keys < MaxKeys
  /\ \E keycode \in KeyCodes, action \in KeyActions : Keyboard(keycode, action)
  /\ keys' = keys + 1
  /\ UNCHANGED ticks

\* a keyboard event while the simulation is not stepped
KeyStroke ==
  /\ \E keycode \in KeyCodes, action \in KeyActions : Keyboard(keycode, action)
  /\ UNCHANGED << ticks, keys >>

----------------------------------------------------------------------------
(* Sample::init and the states a flight passes through *)

\* m_orient.fromDirectionAndRoll(Vec3F(0,0,1), m_roll), m_roll = 0
InitOrient == FromDirectionAndRoll(Vec(0, 0, Q), 0)

\* degrees to radians
Radians(deg) == Mul(deg, 17453)

\* the heading of init() with the nose raised by pitch and banked by roll (degrees)
Attitude(pitch, roll) ==
  LET Pitched(o) ==
        QNormalize(OrientCompose(o, FromAngleAxis(Radians(pitch), Rot(Vec(0, 0, Q), o))))
      Rolled(o) ==
        QNormalize(OrientCompose(o, FromAngleAxis(Radians(roll), Rot(Vec(Q, 0, 0), o))))
  IN  Rolled(Pitched(InitOrient))

\* the message a good landing left behind
OldVerdict == LandingMessage(TRUE, 61234567, -1234567, Vec(2 * Q, 3 * Q, 0), Vec(0, 0, 0))

Flight(pos, vel, orient, pitch_adv, airborn, info, status) ==
  [pos |-> pos, vel |-> vel, orient |-> orient, pitch_adv |-> pitch_adv,
   airborn |-> airborn, info |-> info, status |-> status]

\* the members after init()
InitFlight == Flight(Vec(0, 10 * Q, 0), Vec(0, 0, 200 * Q), InitOrient, 0, 1, << >>, FALSE)

\* a final approach one tick above the runway: speed 60, sinking 1 m/s,
\* pitch 3 degrees, roll 2 degrees, by the number of ticks in the air
Approach(airborn) ==
  Flight(Vec(0, 500, 100 * Q), Vec(0, -1 * Q, 60 * Q), Attitude(3 * Q, 2 * Q),
         400000, airborn, << >>, FALSE)

\* states of a flight: the start, touchdowns, the roll-out, the stop, a climb-out,
\* a tail slide
StartFlights ==
  { InitFlight,
    Approach(2001), Approach(2000), Approach(7),
    \* the same approach with one criterion missed: speed, sink rate, pitch, roll, runway
    Flight(Vec(0, 500, 100 * Q), Vec(0, -1 * Q, 150 * Q), Attitude(3 * Q, 2 * Q),
           400000, 2001, OldVerdict, TRUE),
    Flight(Vec(0, 2000, 100 * Q), Vec(0, -3 * Q, 60 * Q), Attitude(3 * Q, 2 * Q),
           400000, 2001, << >>, FALSE),
    Flight(Vec(0, 500, 100 * Q), Vec(0, -1 * Q, 60 * Q), Attitude(6 * Q, 2 * Q),
           400000, 2001, << >>, FALSE),
    Flight(Vec(0, 500, 100 * Q), Vec(0, -1 * Q, 60 * Q), Attitude(3 * Q, -6 * Q),
           400000, 2001, << >>, FALSE),
    Flight(Vec(50 * Q, 500, 100 * Q), Vec(0, -1 * Q, 60 * Q), Attitude(3 * Q, 2 * Q),
           400000, 2001, << >>, FALSE),
    \* rolling out on the runway after a landing
    Flight(Vec(0, 0, 300 * Q), Vec(0, 0, 50 * Q), InitOrient, 1099450, 0, OldVerdict, TRUE),
    \* standing on the runway after the roll-out
    Flight(Vec(0, 0, 900 * Q), Vec(0, 0, 0), InitOrient, 1099450, 0, OldVerdict, TRUE),
    \* climbing away with the verdict of the last landing still shown
    Flight(Vec(0, 50 * Q, 900 * Q), Vec(0, 5 * Q, 120 * Q), Attitude(4 * Q, 0),
           222000, 3199, OldVerdict, TRUE),
    Flight(Vec(0, 50 * Q, 900 * Q), Vec(0, 5 * Q, 120 * Q), Attitude(4 * Q, 0),
           222000, 3200, OldVerdict, TRUE),
    \* a tail slide: the nose straight up, the aircraft falling straight back
    Flight(Vec(0, 300 * Q, 500 * Q), Vec(0, -5 * Q, 0), Quat(707107, 0, 0, 707107),
           0, 5000, << >>, FALSE) }

\* the controls as the keys set them while the simulation was paused before
\* its first frame: power, pitch, roll, flaps
FlightControls ==
  { [power |-> 3 * Q,  pitch |-> 0,  roll |-> 0, flaps |-> 0],
    [power |-> 10 * Q, pitch |-> 0,  roll |-> 0, flaps |-> 0],
    [power |-> 3 * Q,  pitch |-> -1, roll |-> 0, flaps |-> 0],
    [power |-> 0,      pitch |-> 0,  roll |-> 1, flaps |-> 1],
    [power |-> 0,      pitch |-> 1,  roll |-> 1, flaps |-> 0] }

\* the members of a flight state, the rest as init() leaves it
InitMembers(f, c) ==
  /\ m_pos = f.pos
  /\ m_vel = f.vel
  /\ m_orient = f.orient
  /\ m_pitch_adv = f.pitch_adv
  /\ m_airborn = f.airborn
  /\ m_landing_info = f.info
  /\ m_landing_status = f.status
  /\ m_roll = c.roll
  /\ m_pitch = c.pitch
  /\ m_power = c.power
  /\ m_flaps = c.flaps
  /\ m_speed = 0
  /\ m_aoa = 0
  /\ m_run = TRUE
  /\ m_flightcam = TRUE
  /\ ticks = 0
  /\ keys = 0
  /\ flown = IF f.airborn = 1 THEN 0 ELSE f.airborn
  /\ evals = Len(f.info)
  /\ last = [op |-> "init"]

\* m_roll = 0; m_pitch = 0; m_power = 3; m_flaps = 0
InitControls == [power |-> 3 * Q, pitch |-> 0, roll |-> 0, flaps |-> 0]

\* short runs of frames and keyboard events from the states of a flight
Init == \E f \in StartFlights : InitMembers(f, InitControls)

Next == Advance \/ KeyEvent

Spec == Init /\ [][Next]_vars

\* a whole flight from init() under fixed controls
InitFly == \E c \in FlightControls : InitMembers(InitFlight, c)

NextFly == Fly

SpecFlight == InitFly /\ [][NextFly]_vars

\* the keyboard alone, from init()
InitKeys == InitMembers(InitFlight, InitControls)

NextKeys == KeyStroke

SpecKeys == InitKeys /\ [][NextKeys]_vars

----------------------------------------------------------------------------
(* Properties *)

\* the tolerance of the orientation's squared magnitude, in units of 1/Q
NormEps == 10

\* the last call was Advance
Advanced == last.op = "advance"

\* C1 (as first stated): after an Advance call whose integrated position.y is at
\* or below the ground threshold, position.y = 0 and velocity.y = 0; in every
\* state position.y >= 0, and position.y = 0 implies velocity.y = 0.
C1_Original ==
  /\ (Advanced /\ last.ground) => (m_pos.y = 0 /\ m_vel.y = 0)
  /\ m_pos.y >= 0
  /\ (m_pos.y = 0) => (m_vel.y = 0)

\* C1 (amended): after an Advance call whose integrated position.y is at or
\* below the ground threshold, position.y = 0 and velocity.y is the call's
\* vertical acceleration (the forces with gravity cancelled by the ground
\* force) times dt, the velocity integration of the last statement acting on
\* the zeroed component; in every state position.y >= 0.
C1_GroundClamp ==
  /\ m_pos.y >= 0
  /\ (Advanced /\ last.ground) =>
        /\ m_pos.y = 0
        /\ m_vel.y = TimesDT(last.accel.y)

C1_Witness ==
  /\ Advanced /\ last.ground
  /\ last.pos1.y < 0 /\ last.vel1.y < 0
  /\ m_pos.y = 0 /\ m_vel.y # 0

\* C3: on a ground-contact tick the message and the flag are written exactly
\* when the tick count was above 2000; otherwise both are left as they were;
\* the tick count is 0 after the call either way.
C3_LandingGate ==
  (Advanced /\ last.ground) =>
     /\ last.eval <=> (last.airborn0 > 2000)
     /\ (last.airborn0 > 2000) =>
           m_landing_info = LandingMessage(m_landing_status, m_speed, last.vel1.y,
                                           ToEuler(last.orient2), last.pos1)
     /\ (last.airborn0 <= 2000) =>
           (m_landing_info = last.info0 /\ m_landing_status = last.status0)
     /\ m_airborn = 0

C3_Witness ==
  /\ Advanced /\ last.ground /\ last.airborn0 = 2001
  /\ last.info0 = << >> /\ m_landing_info # << >> /\ m_airborn = 0

\* C4: an evaluated landing succeeds exactly when speed < 80, |velocity.y| < 2,
\* |pitch| < 5, |roll| < 5 and the position is strictly inside the runway, on
\* the values before the ground clamp and the orientation snap; each criterion
\* carries its own OK or FAIL and the result is CRASH when any fails.
C4_LandingGrade ==
  (Advanced /\ last.eval) =>
     LET angs == ToEuler(last.orient2)
         speed_ok  == m_speed < 80 * Q
         sink_ok   == Abs(last.vel1.y) < 2 * Q
         pitch_ok  == Abs(angs.y) < 5 * Q
         roll_ok   == Abs(angs.x) < 5 * Q
         runway_ok == /\ Abs(last.pos1.x) < m_runway_width
                      /\ Abs(last.pos1.z) < m_runway_length
         all_ok    == speed_ok /\ sink_ok /\ pitch_ok /\ roll_ok /\ runway_ok
         msg       == m_landing_info[1]
     IN  /\ m_landing_status = all_ok
         /\ msg.result = (IF all_ok THEN "LANDED!" ELSE "CRASH")
         /\ msg.speed_ok = (IF speed_ok THEN "OK" ELSE "FAIL")
         /\ msg.sink_ok = (IF sink_ok THEN "OK" ELSE "FAIL")
         /\ msg.pitch_ok = (IF pitch_ok THEN "OK" ELSE "FAIL")
         /\ msg.roll_ok = (IF roll_ok THEN "OK" ELSE "FAIL")
         /\ msg.runway = (IF runway_ok THEN "Yes     OK" ELSE "No     FAIL")

C4_Witness ==
  /\ Advanced /\ last.eval
  /\ ~m_landing_status
  /\ m_landing_info[1].result = "CRASH"
  /\ m_landing_info[1].speed_ok = "FAIL"
  /\ m_landing_info[1].sink_ok = "OK"
  /\ m_landing_info[1].pitch_ok = "OK"
  /\ m_landing_info[1].roll_ok = "OK"
  /\ m_landing_info[1].runway = "Yes     OK"

\* C5: when the rotation from the forward axis to the velocity axis is
\* degenerate the reorientation is skipped: the orientation changes by the roll
\* rotation only (and by the ground snap on the ground); the orientation, the
\* angle of attack and the velocity are never not-a-number.
C5_DegenerateReorientation ==
  /\ ~m_orient.nan
  /\ m_aoa # NaN
  /\ ~VecIsNaN(m_vel)
  /\ (Advanced /\ last.degenerate) =>
        /\ last.orient2 = RollControl(last.orient0, m_roll)
        /\ m_orient = (IF last.ground THEN GroundOrient(last.fwd, m_roll)
                       ELSE last.orient2)

C5_Witness ==
  /\ Advanced /\ last.degenerate
  /\ m_roll # 0
  /\ m_orient # last.orient0
  /\ ~m_orient.nan

\* C2: at the end of every Advance call the magnitude of the stored velocity
\* is at least 0 and at most max_speed, and so is the stored speed.
C2_SpeedBound ==
  Advanced =>
     /\ Length(m_vel) >= 0
     /\ Length(m_vel) <= m_max_speed
     /\ m_speed >= 0
     /\ m_speed <= m_max_speed

C2_Witness ==
  /\ Advanced
  /\ m_power = 10 * Q
  /\ Length(m_vel) > 350 * Q
  /\ Length(m_vel) > Length(last.vel0)

\* C6: the orientation is a unit quaternion after every Advance call, within
\* the tolerance, and the ground snap is built from a non-zero direction.
C6_UnitOrientation ==
  /\ ~m_orient.nan
  /\ Abs(QNorm2(m_orient) - Q) <= NormEps
  /\ (Advanced /\ last.ground) => (last.fwd.x # 0 \/ last.fwd.z # 0)

C6_Witness ==
  /\ Advanced /\ last.ground
  /\ last.fwd.y # 0
  /\ m_roll # 0
  /\ Abs(QNorm2(m_orient) - Q) <= NormEps

\* C7: the controls stay in their ranges: roll and pitch in {-1, 0, 1}, power
\* in [0, 10], flaps in {0, 1}; a throttle press moves the power by 0.1 and
\* clamps it, an 'f' press flips the flaps; a release of a roll key zeroes the
\* roll, of a pitch key the pitch, and a release changes no other control.
C7_ControlRanges ==
  /\ m_roll \in {-1, 0, 1}
  /\ m_pitch \in {-1, 0, 1}
  /\ m_power >= 0 /\ m_power <= 10 * Q
  /\ m_flaps \in {0, 1}
  /\ (last.op = "keyboard" /\ last.action = "RELEASE") =>
        /\ m_roll = (IF last.keycode \in {"LEFT", "RIGHT"} THEN 0 ELSE last.roll0)
        /\ m_pitch = (IF last.keycode \in {"UP", "DOWN"} THEN 0 ELSE last.pitch0)
        /\ m_power = last.power0 /\ m_flaps = last.flaps0
        /\ m_run = last.run0 /\ m_flightcam = last.cam0
  /\ (last.op = "keyboard" /\ last.action # "RELEASE") =>
        /\ last.keycode \in {"w", "q"} => m_power = Min(last.power0 + 100000, 10 * Q)
        /\ last.keycode \in {"s", "a"} => m_power = Max(last.power0 - 100000, 0)
        /\ last.keycode \notin {"w", "q", "s", "a"} => m_power = last.power0
        /\ m_flaps = (IF last.keycode = "f" THEN 1 - last.flaps0 ELSE last.flaps0)
        /\ last.keycode = "LEFT" => m_roll = -1
        /\ last.keycode = "RIGHT" => m_roll = 1
        /\ last.keycode = "UP" => m_pitch = -1
        /\ last.keycode = "DOWN" => m_pitch = 1

C7_Witness ==
  /\ last.op = "keyboard" /\ last.action = "PRESS" /\ last.keycode = "w"
  /\ last.power0 = 10 * Q /\ m_power = 10 * Q
  /\ m_roll = -1 /\ m_pitch = 1 /\ m_flaps = 1

\* C8 (as first stated): an Advance call that starts with altitude <= 0 stores
\* pitch_advance = 1.1 whatever the pitch input; the decay and blend is applied
\* only in calls that start with altitude > 0.
C8_Original ==
  Advanced =>
     m_pitch_adv = (IF last.pos0.y <= 0 THEN 1100000
                    ELSE Mul(last.pitch_adv0, 999500) + m_pitch * 5000)

\* C8 (amended): an Advance call that starts with altitude <= 0 sets
\* pitch_advance to 1.1 and then applies the decay and blend like every other
\* call: the value used and stored is 1.1 * 0.9995 + pitch * 0.005, independent
\* of the previous value but not of the pitch input; a call that starts with
\* altitude > 0 stores pitch_advance * 0.9995 + pitch * 0.005.
C8_PitchAuthority ==
  Advanced =>
     /\ last.pos0.y <= 0 => m_pitch_adv = 1099450 + m_pitch * 5000
     /\ last.pos0.y > 0 => m_pitch_adv = Mul(last.pitch_adv0, 999500) + m_pitch * 5000

C8_Witness ==
  /\ Advanced
  /\ last.pos0.y <= 0
  /\ m_pitch = -1
  /\ last.pitch_adv0 # 1100000
  /\ m_pitch_adv = 1094450

\* C9: an Advance call that makes no evaluation leaves the landing message as
\* it was, unless it is an airborne tick that leaves the tick count above
\* 3200: then the message is empty; a ground tick never clears it.
C9_VerdictExpiry ==
  (Advanced /\ ~last.eval) =>
     /\ (~last.ground /\ m_airborn > 3200) => m_landing_info = << >>
     /\ (last.ground \/ m_airborn <= 3200) => m_landing_info = last.info0

C9_Witness ==
  /\ Advanced /\ ~last.ground
  /\ last.info0 # << >>
  /\ m_airborn = 3201
  /\ m_landing_info = << >>

\* C10: the tick count is 0 after every ground tick and one more after every
\* airborne tick; an evaluation after an earlier one has at least 2001
\* airborne calls in a row before it; a ground tick that follows a ground tick
\* makes no evaluation and leaves the verdict; a ground contact within the
\* first 2000 calls after init() makes no evaluation.
C10_OneVerdictPerTouchdown ==
  Advanced =>
     /\ last.ground => m_airborn = 0
     /\ ~last.ground => m_airborn = last.airborn0 + 1
     /\ (last.eval /\ last.evals0 >= 1) => last.flown0 >= 2001
     /\ (last.ground /\ last.flown0 = 0 /\ ticks > 1) =>
           /\ ~last.eval
           /\ m_landing_info = last.info0
           /\ m_landing_status = last.status0
     /\ (last.ground /\ ticks <= 2000) => ~last.eval

C10_Witness ==
  /\ Advanced /\ last.eval
  /\ last.evals0 >= 1
  /\ last.flown0 >= 2001

=============================================================================
